---- MODULE Spec2Model ----
(***************************************************************************)
(* kue-unique: the unique-job registry kept in one JSON document of the    *)
(* backing store, the patched Job.prototype.save (submit) and the patched  *)
(* Job.prototype.remove, modelled from src/index.js.  Every store call     *)
(* (client.get, client.set) and every engine call (the unpatched save,     *)
(* Job.get, the unpatched remove) is one asynchronous step that either     *)
(* succeeds or calls back with an error.                                   *)
(***************************************************************************)
EXTENDS Integers, FiniteSets, Bags

VARIABLES store, jobs, nextId, calls, lastSubmit, clean, failed, started, usedKeys

vars == <<store, jobs, nextId, calls, lastSubmit, clean, failed, started, usedKeys>>

\* ---------------------------------------------------------------- bounds
MaxInFlight == 2
NumKeys == 2
MaxJobs == 3
MaxAttempts == 3

Keys == 1..NumKeys
Ids == 1..MaxJobs

\* a job whose data carries no unique key (this.data.unique is falsy)
NoKey == 0

\* ------------------------------------------------- documents and blobs
EmptyDoc == [k \in {} |-> 0]

Docs == UNION {[D -> Ids] : D \in SUBSET Keys}

NullBlob == [t |-> "null"]

GarbageBlob == [t |-> "garbage"]

\* JSON.stringify(uniqueJobsData)
Stringify(doc) == [t |-> "json", doc |-> doc]

\* JSON.parse inside try/catch, then the null correction
ParseBlob(blob) == IF blob.t = "json" THEN blob.doc ELSE EmptyDoc

\* _.pick(uniqueJobsData, unique)
Pick(doc, unique) == [k \in (DOMAIN doc) \cap {unique} |-> doc[k]]

\* mutant: the id is taken for a property name, _.omit(uniqueJobsData, id)
OmitByKey(doc, id) == [k \in (DOMAIN doc) \ {id} |-> doc[k]]

\* mutant: the predicate never matches, nothing is omitted
OmitNothing(doc, id) == doc

\* _.omit(uniqueJobsData, function(value) { return value === id; })
Omit(doc, id) == [k \in {x \in DOMAIN doc : doc[x] # id} |-> doc[k]]

\* mutant: the merged document holds the new entry only
MergeReplaces(doc, unique, id) == [k \in {unique} |-> id]

\* mutant: an entry already in the document is kept, the first writer wins
MergeKeepsExisting(doc, unique, id) ==
    [k \in (DOMAIN doc) \cup {unique} |-> IF k \in DOMAIN doc THEN doc[k] ELSE id]

\* mutant: the new pair is dropped instead of merged
MergeDropped(doc, unique, id) == doc

\* _.merge(uniqueJobsData, uniqueJobData) with uniqueJobData = {unique: id}
Merge(doc, unique, id) ==
    [k \in (DOMAIN doc) \cup {unique} |-> IF k = unique THEN id ELSE doc[k]]

\* mutant: the existence test never succeeds
ExistsNever(uniqueJobData) == FALSE

\* _.size(_.keys(uniqueJobData)) > 0
Exists(uniqueJobData) == Cardinality(DOMAIN uniqueJobData) > 0

\* _.first(_.values(uniqueJobData))
FirstValue(uniqueJobData) == uniqueJobData[CHOOSE k \in DOMAIN uniqueJobData : TRUE]

\* what Job.getUniqueJobData(unique) yields on a successful store get
Lookup(unique) == Pick(ParseBlob(store), unique)

\* the keys of the stored document whose value is id
KeysOf(id) == {k \in DOMAIN ParseBlob(store) : ParseBlob(store)[k] = id}

\* --------------------------------------------------------- attempts
\* calls is the bag of the attempts (save or remove calls) whose calls are
\* in flight, plus the attempt that finished last, until the next step
NewCall ==
    [op |-> "none", pc |-> "idle", eng |-> "none", reg |-> "none",
     key |-> NoKey, id |-> 0, jkey |-> NoKey, wr |-> EmptyDoc,
     cb |-> "none", cbCount |-> 0, already |-> FALSE,
     found |-> FALSE, dangling |-> FALSE, created |-> FALSE, mergeFailed |-> FALSE,
     nGet |-> 0, nSet |-> 0, nCreate |-> 0, nFetch |-> 0,
     solo |-> TRUE, prior |-> 0, rkeys |-> {}]

Calls == BagToSet(calls)

\* every call the attempt made has called back
Finished(r) == r.pc = "done" /\ r.eng # "pending"

InFlight == {r \in Calls : ~Finished(r)}

\* the number of attempts of set S in the bag
Count(S) == BagCardinality([r \in S |-> calls[r]])

\* a save attempt that may still ask the engine for a new id
MayCreate(r) == r.pc \in {"lookupGet", "create", "plainCreate"}

\* the attempts of bag B still in flight, none of them alone any more
Disturbed(B) ==
    LET S == {[r EXCEPT !.solo = FALSE] : r \in {x \in BagToSet(B) : ~Finished(x)}}
    IN [s \in S |-> CopiesIn(s, B) + IF s.solo THEN 0
                                     ELSE CopiesIn([s EXCEPT !.solo = TRUE], B)]

\* attempt r takes a step and becomes rec: the other attempts in flight are
\* no longer alone, the result of an attempt finished earlier is consumed
Step(r, rec) == Disturbed(calls (-) SetToBag({r})) (+) SetToBag({rec})

\* a new attempt rec starts
Begin(rec) == Disturbed(calls) (+) SetToBag({rec})

\* the done(error, job) of the waterfall in Job.prototype.save
Callback(rec, err) ==
    [rec EXCEPT !.pc = "done", !.cb = IF err THEN "err" ELSE "ok",
                !.cbCount = @ + 1]

Init ==
    /\ store \in {NullBlob, GarbageBlob}
    /\ jobs = EmptyDoc
    /\ nextId = 1
    /\ calls = EmptyBag
    /\ lastSubmit = [k \in Keys |-> 0]
    /\ clean = TRUE
    /\ failed = FALSE
    /\ started = 0
    /\ usedKeys = 0

\* a caller may start one more attempt
MayStart ==
    /\ started < MaxAttempts
    /\ Count(InFlight) < MaxInFlight

\* mutant: the isUniqueJob test is skipped, every save takes the unique branch
StartSaveAlwaysUnique(k) ==
    /\ MayStart
    /\ k <= usedKeys + 1
    /\ nextId + Count({r \in InFlight : MayCreate(r)}) <= MaxJobs
    /\ calls' = Begin([NewCall EXCEPT
                   !.op = "save", !.key = k, !.pc = "lookupGet", !.nGet = 1,
                   !.solo = InFlight = {}])
    /\ clean' = (clean /\ InFlight = {})
    /\ failed' = failed
    /\ started' = started + 1
    /\ usedKeys' = IF k > usedKeys THEN k ELSE usedKeys
    /\ UNCHANGED <<store, jobs, nextId, lastSubmit>>

\* Job.prototype.save called on a fresh job, unique or not; keys are opaque,
\* so a key not used before is the next one of Keys
StartSave(k) ==
    /\ MayStart
    /\ k <= usedKeys + 1
    /\ nextId + Count({r \in InFlight : MayCreate(r)}) <= MaxJobs
    /\ calls' = Begin([NewCall EXCEPT
                   !.op = "save", !.key = k,
                   !.pc = IF k = NoKey THEN "plainCreate" ELSE "lookupGet",
                   !.nGet = IF k = NoKey THEN 0 ELSE 1,
                   !.nCreate = IF k = NoKey THEN 1 ELSE 0,
                   !.solo = InFlight = {},
                   !.prior = IF k # NoKey /\ InFlight = {} THEN lastSubmit[k] ELSE 0])
    /\ clean' = (clean /\ InFlight = {})
    /\ failed' = failed
    /\ started' = started + 1
    /\ usedKeys' = IF k > usedKeys THEN k ELSE usedKeys
    /\ UNCHANGED <<store, jobs, nextId, lastSubmit>>

\* mutant: a document that does not parse is reported as an error
LookupGetSurfacesParseError(r, ok) ==
    /\ r.pc = "lookupGet"
    /\ LET uniqueJobData == Lookup(r.key)
       IN calls' = Step(r,
            IF ~ok \/ store.t = "garbage" THEN Callback(r, TRUE)
            ELSE IF Exists(uniqueJobData)
                 THEN [r EXCEPT !.pc = "jobGet", !.found = TRUE,
                                !.id = FirstValue(uniqueJobData), !.nFetch = @ + 1]
                 ELSE [r EXCEPT !.pc = "create", !.nCreate = @ + 1])
    /\ clean' = (clean /\ ok)
    /\ failed' = (failed \/ ~ok)
    /\ UNCHANGED <<store, jobs, nextId, lastSubmit, started, usedKeys>>

\* mutant: the error of the get is dropped, the empty data counts as not found
LookupGetIgnoresError(r, ok) ==
    /\ r.pc = "lookupGet"
    /\ LET uniqueJobData == Lookup(r.key)
       IN calls' = Step(r,
            IF ok /\ Exists(uniqueJobData)
            THEN [r EXCEPT !.pc = "jobGet", !.found = TRUE,
                           !.id = FirstValue(uniqueJobData), !.nFetch = @ + 1]
            ELSE [r EXCEPT !.pc = "create", !.nCreate = @ + 1])
    /\ clean' = (clean /\ ok)
    /\ failed' = (failed \/ ~ok)
    /\ UNCHANGED <<store, jobs, nextId, lastSubmit, started, usedKeys>>

\* Job.getUniqueJobData calls back inside save: error, existing entry, or none
LookupGet(r, ok) ==
    /\ r.pc = "lookupGet"
    /\ LET uniqueJobData == Lookup(r.key)
       IN calls' = Step(r,
            IF ~ok THEN Callback(r, TRUE)
            ELSE IF Exists(uniqueJobData)
                 THEN [r EXCEPT !.pc = "jobGet", !.found = TRUE,
                                !.id = FirstValue(uniqueJobData), !.nFetch = @ + 1]
                 ELSE [r EXCEPT !.pc = "create", !.nCreate = @ + 1])
    /\ clean' = (clean /\ ok)
    /\ failed' = (failed \/ ~ok)
    /\ UNCHANGED <<store, jobs, nextId, lastSubmit, started, usedKeys>>

\* mutant: a job that cannot be fetched is replaced by a newly created one
JobGetRecreates(r, ok) ==
    /\ r.pc = "jobGet"
    /\ LET present == r.id \in DOMAIN jobs
       IN calls' = Step(r,
            IF ~present
            THEN [r EXCEPT !.dangling = TRUE, !.pc = "create", !.nCreate = @ + 1]
            ELSE IF ~ok THEN Callback(r, TRUE)
            ELSE [r EXCEPT !.pc = "mergeGet", !.already = TRUE,
                           !.jkey = jobs[r.id], !.nGet = @ + 1])
    /\ clean' = (clean /\ (ok \/ r.id \notin DOMAIN jobs))
    /\ failed' = (failed \/ (~ok /\ r.id \in DOMAIN jobs))
    /\ UNCHANGED <<store, jobs, nextId, lastSubmit, started, usedKeys>>

\* Job.get(id) calls back: the job flagged alreadyExist, or an error
JobGet(r, ok) ==
    /\ r.pc = "jobGet"
    /\ LET present == r.id \in DOMAIN jobs
       IN calls' = Step(r,
            IF ~present
            THEN Callback([r EXCEPT !.dangling = TRUE], TRUE)
            ELSE IF ~ok THEN Callback(r, TRUE)
            ELSE [r EXCEPT !.pc = "mergeGet", !.already = TRUE,
                           !.jkey = jobs[r.id], !.nGet = @ + 1])
    /\ clean' = (clean /\ (ok \/ r.id \notin DOMAIN jobs))
    /\ failed' = (failed \/ (~ok /\ r.id \in DOMAIN jobs))
    /\ UNCHANGED <<store, jobs, nextId, lastSubmit, started, usedKeys>>

\* mutant: the engine hands out the smallest id no job holds, a removed job's
\* id is used again
CreateReusesId(r, ok) ==
    /\ r.pc = "create"
    /\ IF ok
       THEN LET id == CHOOSE i \in Ids \ DOMAIN jobs :
                          \A j \in Ids \ DOMAIN jobs : i <= j
            IN /\ jobs' = [i \in (DOMAIN jobs) \cup {id} |->
                              IF i = id THEN r.key ELSE jobs[i]]
               /\ nextId' = nextId + 1
               /\ calls' = Step(r, [r EXCEPT !.pc = "mergeGet", !.created = TRUE,
                                             !.id = id, !.jkey = r.key,
                                             !.nGet = @ + 1])
       ELSE /\ calls' = Step(r, Callback(r, TRUE))
            /\ UNCHANGED <<jobs, nextId>>
    /\ clean' = (clean /\ ok)
    /\ failed' = (failed \/ ~ok)
    /\ UNCHANGED <<store, lastSubmit, started, usedKeys>>

\* previousSave calls back inside the unique branch
Create(r, ok) ==
    /\ r.pc = "create"
    /\ IF ok
       THEN /\ jobs' = [i \in (DOMAIN jobs) \cup {nextId} |->
                           IF i = nextId THEN r.key ELSE jobs[i]]
            /\ nextId' = nextId + 1
            /\ calls' = Step(r, [r EXCEPT !.pc = "mergeGet", !.created = TRUE,
                                          !.id = nextId, !.jkey = r.key,
                                          !.nGet = @ + 1])
       ELSE /\ calls' = Step(r, Callback(r, TRUE))
            /\ UNCHANGED <<jobs, nextId>>
    /\ clean' = (clean /\ ok)
    /\ failed' = (failed \/ ~ok)
    /\ UNCHANGED <<store, lastSubmit, started, usedKeys>>

\* previousSave.call(this, done) for a job without a unique key
PlainCreate(r, ok) ==
    /\ r.pc = "plainCreate"
    /\ IF ok
       THEN /\ jobs' = [i \in (DOMAIN jobs) \cup {nextId} |->
                           IF i = nextId THEN NoKey ELSE jobs[i]]
            /\ nextId' = nextId + 1
            /\ calls' = Step(r, Callback([r EXCEPT !.created = TRUE,
                                                   !.id = nextId], FALSE))
       ELSE /\ calls' = Step(r, Callback(r, TRUE))
            /\ UNCHANGED <<jobs, nextId>>
    /\ clean' = (clean /\ ok)
    /\ failed' = (failed \/ ~ok)
    /\ UNCHANGED <<store, lastSubmit, started, usedKeys>>

\* Job.saveUniqueJobsData: the get calls back, the merged document is sent
MergeGet(r, ok) ==
    /\ r.pc = "mergeGet"
    /\ calls' = Step(r,
            IF ~ok THEN Callback([r EXCEPT !.mergeFailed = TRUE], TRUE)
            ELSE [r EXCEPT !.pc = "mergeSet", !.nSet = @ + 1,
                           !.wr = Merge(ParseBlob(store), r.jkey, r.id)])
    /\ clean' = (clean /\ ok)
    /\ failed' = (failed \/ ~ok)
    /\ UNCHANGED <<store, jobs, nextId, lastSubmit, started, usedKeys>>

\* mutant: the set merges into the document as it is now, not as it was read
MergeSetAtomic(r, ok) ==
    /\ r.pc = "mergeSet"
    /\ store' = IF ok THEN Stringify(Merge(ParseBlob(store), r.jkey, r.id)) ELSE store
    /\ calls' = Step(r,
            IF ok THEN Callback(r, FALSE)
            ELSE Callback([r EXCEPT !.mergeFailed = TRUE], TRUE))
    /\ lastSubmit' = IF ok
                     THEN [lastSubmit EXCEPT ![r.key] = IF r.solo THEN r.id ELSE 0]
                     ELSE lastSubmit
    /\ clean' = (clean /\ ok)
    /\ failed' = (failed \/ ~ok)
    /\ UNCHANGED <<jobs, nextId, started, usedKeys>>

\* mutant: the error of the set is dropped, done(null, job) is invoked
MergeSetSwallows(r, ok) ==
    /\ r.pc = "mergeSet"
    /\ store' = IF ok THEN Stringify(r.wr) ELSE store
    /\ calls' = Step(r,
            IF ok THEN Callback(r, FALSE)
            ELSE Callback([r EXCEPT !.mergeFailed = TRUE], FALSE))
    /\ lastSubmit' = IF ok
                     THEN [lastSubmit EXCEPT ![r.key] = IF r.solo THEN r.id ELSE 0]
                     ELSE lastSubmit
    /\ clean' = (clean /\ ok)
    /\ failed' = (failed \/ ~ok)
    /\ UNCHANGED <<jobs, nextId, started, usedKeys>>

\* Job.saveUniqueJobsData: the set calls back, save's done is invoked
MergeSet(r, ok) ==
    /\ r.pc = "mergeSet"
    /\ store' = IF ok THEN Stringify(r.wr) ELSE store
    /\ calls' = Step(r,
            IF ok THEN Callback(r, FALSE)
            ELSE Callback([r EXCEPT !.mergeFailed = TRUE], TRUE))
    /\ lastSubmit' = IF ok
                     THEN [lastSubmit EXCEPT ![r.key] = IF r.solo THEN r.id ELSE 0]
                     ELSE lastSubmit
    /\ clean' = (clean /\ ok)
    /\ failed' = (failed \/ ~ok)
    /\ UNCHANGED <<jobs, nextId, started, usedKeys>>

\* mutant: the final callback is invoked at every task error, with no memory
\* of having been invoked
ParallelCbAtEachError(rec) ==
    IF rec.eng = "err" /\ rec.reg = "err"
    THEN [rec EXCEPT !.cb = "err", !.cbCount = @ + 1]
    ELSE IF rec.cb # "none" THEN rec
    ELSE IF rec.eng = "err" \/ rec.reg = "err"
         THEN [rec EXCEPT !.cb = "err", !.cbCount = @ + 1]
    ELSE IF rec.eng = "ok" /\ rec.reg = "ok"
         THEN [rec EXCEPT !.cb = "ok", !.cbCount = @ + 1]
    ELSE rec

\* mutant: the final callback is invoked as soon as one task succeeded
ParallelCbEager(rec) ==
    IF rec.cb # "none" THEN rec
    ELSE IF rec.eng = "err" \/ rec.reg = "err"
         THEN [rec EXCEPT !.cb = "err", !.cbCount = @ + 1]
    ELSE IF rec.eng = "ok" \/ rec.reg = "ok"
         THEN [rec EXCEPT !.cb = "ok", !.cbCount = @ + 1]
    ELSE rec

\* mutant: only the error of task removeJob reaches the final callback
ParallelCbDropsRegError(rec) ==
    IF rec.cb # "none" THEN rec
    ELSE IF rec.eng = "err"
         THEN [rec EXCEPT !.cb = "err", !.cbCount = @ + 1]
    ELSE IF rec.eng = "ok" /\ rec.reg # "pending"
         THEN [rec EXCEPT !.cb = "ok", !.cbCount = @ + 1]
    ELSE rec

\* the final callback of async.parallel: invoked once, at the first task error
\* or when both tasks have called back without one
ParallelCb(rec) ==
    IF rec.cb # "none" THEN rec
    ELSE IF rec.eng = "err" \/ rec.reg = "err"
         THEN [rec EXCEPT !.cb = "err", !.cbCount = @ + 1]
    ELSE IF rec.eng = "ok" /\ rec.reg = "ok"
         THEN [rec EXCEPT !.cb = "ok", !.cbCount = @ + 1]
    ELSE rec

\* Job.prototype.remove on a job of the engine: both tasks of async.parallel
\* are started
StartRemove(j) ==
    /\ MayStart
    /\ j \in DOMAIN jobs
    /\ calls' = Begin([NewCall EXCEPT
                   !.op = "remove", !.id = j, !.pc = "rmGet",
                   !.eng = "pending", !.reg = "pending", !.nGet = 1,
                   !.solo = InFlight = {},
                   !.rkeys = KeysOf(j)])
    /\ clean' = (clean /\ InFlight = {})
    /\ failed' = failed
    /\ started' = started + 1
    /\ lastSubmit' = [k \in Keys |-> IF lastSubmit[k] = j THEN 0 ELSE lastSubmit[k]]
    /\ UNCHANGED <<store, jobs, nextId, usedKeys>>

\* task removeJob: previousRemove calls back
EngRemove(r, ok) ==
    /\ r.eng = "pending"
    /\ IF ok
       THEN /\ jobs' = [i \in (DOMAIN jobs) \ {r.id} |-> jobs[i]]
            /\ calls' = Step(r, ParallelCb([r EXCEPT !.eng = "ok"]))
       ELSE /\ calls' = Step(r, ParallelCb([r EXCEPT !.eng = "err"]))
            /\ UNCHANGED jobs
    /\ clean' = (clean /\ ok)
    /\ failed' = (failed \/ ~ok)
    /\ UNCHANGED <<store, nextId, lastSubmit, started, usedKeys>>

\* task removeUniqueData: the get of Job.removeUniqueJobData calls back
RmGet(r, ok) ==
    /\ r.pc = "rmGet"
    /\ calls' = Step(r,
            IF ok THEN [r EXCEPT !.pc = "rmSet", !.nSet = @ + 1,
                                 !.wr = Omit(ParseBlob(store), r.id)]
            ELSE ParallelCb([r EXCEPT !.pc = "done", !.reg = "err"]))
    /\ clean' = (clean /\ ok)
    /\ failed' = (failed \/ ~ok)
    /\ UNCHANGED <<store, jobs, nextId, lastSubmit, started, usedKeys>>

\* mutant: the cleaned document is written only once removeJob has succeeded
RmSetGated(r, ok) ==
    /\ r.pc = "rmSet"
    /\ store' = IF ok /\ r.eng = "ok" THEN Stringify(r.wr) ELSE store
    /\ calls' = Step(r,
            IF ok THEN ParallelCb([r EXCEPT !.pc = "done", !.reg = "ok"])
            ELSE ParallelCb([r EXCEPT !.pc = "done", !.reg = "err"]))
    /\ clean' = (clean /\ ok)
    /\ failed' = (failed \/ ~ok)
    /\ UNCHANGED <<jobs, nextId, lastSubmit, started, usedKeys>>

\* task removeUniqueData: the set of Job.removeUniqueJobData calls back
RmSet(r, ok) ==
    /\ r.pc = "rmSet"
    /\ store' = IF ok THEN Stringify(r.wr) ELSE store
    /\ calls' = Step(r,
            IF ok THEN ParallelCb([r EXCEPT !.pc = "done", !.reg = "ok"])
            ELSE ParallelCb([r EXCEPT !.pc = "done", !.reg = "err"]))
    /\ clean' = (clean /\ ok)
    /\ failed' = (failed \/ ~ok)
    /\ UNCHANGED <<jobs, nextId, lastSubmit, started, usedKeys>>

Next ==
    \/ \E k \in Keys \cup {NoKey} : StartSave(k)
    \/ \E j \in Ids : StartRemove(j)
    \/ \E r \in Calls, ok \in BOOLEAN : LookupGet(r, ok)
    \/ \E r \in Calls, ok \in BOOLEAN : JobGet(r, ok)
    \/ \E r \in Calls, ok \in BOOLEAN : Create(r, ok)
    \/ \E r \in Calls, ok \in BOOLEAN : PlainCreate(r, ok)
    \/ \E r \in Calls, ok \in BOOLEAN : MergeGet(r, ok)
    \/ \E r \in Calls, ok \in BOOLEAN : MergeSet(r, ok)
    \/ \E r \in Calls, ok \in BOOLEAN : EngRemove(r, ok)
    \/ \E r \in Calls, ok \in BOOLEAN : RmGet(r, ok)
    \/ \E r \in Calls, ok \in BOOLEAN : RmSet(r, ok)

Spec == Init /\ [][Next]_vars

\* ------------------------------------------- removes of registered jobs
\* the document that registers every job of f under its unique key
DocOf(f) ==
    [k \in {f[i] : i \in DOMAIN f} \ {NoKey} |-> CHOOSE i \in DOMAIN f : f[i] = k]

\* the ids the engine handed out whose job is no longer in the engine
Removed == {i \in 1..(nextId - 1) : i \notin DOMAIN jobs}

\* the state after n jobs, unique or not, were saved one after the other
\* without a failure; the attempts are counted from here
SavedInit ==
    \E n \in 1..MaxJobs :
      \E f \in [1..n -> Keys \cup {NoKey}] :
        /\ \A i, j \in 1..n : (f[i] = f[j] /\ f[i] # NoKey) => i = j
        /\ jobs = f
        /\ store = IF DocOf(f) = EmptyDoc THEN NullBlob ELSE Stringify(DocOf(f))
        /\ nextId = n + 1
        /\ calls = EmptyBag
        /\ lastSubmit = [k \in Keys |-> IF k \in DOMAIN DocOf(f) THEN DocOf(f)[k] ELSE 0]
        /\ clean = TRUE
        /\ failed = FALSE
        /\ started = 0
        /\ usedKeys = NumKeys

\* Job.prototype.remove is called twice, nothing else is
RemoveNext ==
    \/ \E j \in Ids : started < 2 /\ StartRemove(j)
    \/ \E r \in Calls, ok \in BOOLEAN : EngRemove(r, ok)
    \/ \E r \in Calls, ok \in BOOLEAN : RmGet(r, ok)
    \/ \E r \in Calls, ok \in BOOLEAN : RmSet(r, ok)

RemoveSpec == SavedInit /\ [][RemoveNext]_vars

\* every store call (get, set) and every engine call (plain save, Job.get,
\* plain remove) in flight eventually calls back, with or without an error
FairSpec ==
    /\ Init
    /\ [][Next]_vars
    /\ WF_vars(\E r \in Calls, ok \in BOOLEAN : LookupGet(r, ok))
    /\ WF_vars(\E r \in Calls, ok \in BOOLEAN : JobGet(r, ok))
    /\ WF_vars(\E r \in Calls, ok \in BOOLEAN : Create(r, ok))
    /\ WF_vars(\E r \in Calls, ok \in BOOLEAN : PlainCreate(r, ok))
    /\ WF_vars(\E r \in Calls, ok \in BOOLEAN : MergeGet(r, ok))
    /\ WF_vars(\E r \in Calls, ok \in BOOLEAN : MergeSet(r, ok))
    /\ WF_vars(\E r \in Calls, ok \in BOOLEAN : EngRemove(r, ok))
    /\ WF_vars(\E r \in Calls, ok \in BOOLEAN : RmGet(r, ok))
    /\ WF_vars(\E r \in Calls, ok \in BOOLEAN : RmSet(r, ok))

\* ------------------------------------------------------------ sanity
TypeOK ==
    /\ store \in {NullBlob, GarbageBlob} \cup {Stringify(d) : d \in Docs}
    /\ DOMAIN jobs \subseteq Ids
    /\ \A i \in DOMAIN jobs : jobs[i] \in Keys \cup {NoKey}
    /\ nextId \in 1..(MaxJobs + 1)
    /\ clean \in BOOLEAN /\ failed \in BOOLEAN /\ (clean => ~failed)
    /\ started \in 0..MaxAttempts /\ usedKeys \in 0..NumKeys
    /\ Count(InFlight) <= MaxInFlight /\ Count(Calls) <= MaxInFlight + 1
    /\ \A p \in Calls : p.wr \in Docs /\ p.cbCount \in 0..1

\* the jobs in the engine that carry key k
JobsWith(k) == {i \in DOMAIN jobs : jobs[i] = k}

SaveOf(r) == r.op = "save"

RemoveOf(r) == r.op = "remove"

\* ------------------------------------------------------------ C1
\* C1 (as stated): for every uniqueness key k, in every reachable state and
\* under any number of concurrent submits carrying k, at most one job
\* carrying k exists in the engine.
C1_AtMostOneJobPerKey == \A k \in Keys : Cardinality(JobsWith(k)) <= 1

\* C1 (amended): as long as attempts have run one at a time and no store or
\* engine call has failed, at most one job carrying k exists in the engine.
C1_AtMostOneJobPerKeySequential == clean => C1_AtMostOneJobPerKey

\* a second sequential submit found the job of the first and returned it
C1_Witness ==
    /\ clean
    /\ \E p \in Calls : SaveOf(p) /\ p.found /\ p.cb = "ok"
                        /\ JobsWith(p.key) = {p.id}

\* ------------------------------------------------------------ C2
\* C2: a submit with key k that runs alone after a submit with k completed
\* successfully, with no removal of that job in between, never asks the
\* engine for a new job, fetches the job of the first submit, and on success
\* returns that job's id flagged alreadyExist.
C2_SecondSubmitReturnsFirst ==
    \A p \in Calls :
        (SaveOf(p) /\ p.solo /\ p.prior # 0) =>
            /\ p.nCreate = 0 /\ ~p.created /\ ~p.dangling
            /\ p.pc \in {"jobGet", "mergeGet", "mergeSet"} => p.id = p.prior
            /\ p.cb = "ok" => (p.id = p.prior /\ p.already)

C2_Witness ==
    \E p \in Calls :
        /\ SaveOf(p) /\ p.solo /\ p.prior # 0
        /\ p.cb = "ok" /\ p.id = p.prior /\ p.already

\* ------------------------------------------------------------ C3
\* C3: after a remove that overlapped no other operation has completed
\* without error, the document has no entry whose value is the removed id,
\* and a lookup of every key that mapped to it returns absent.
C3_RemoveCleansEntry ==
    \A p \in Calls :
        (RemoveOf(p) /\ Finished(p) /\ p.cb = "ok" /\ p.solo) =>
            /\ KeysOf(p.id) = {}
            /\ \A k \in p.rkeys : ~Exists(Lookup(k))

C3_Witness ==
    \E p \in Calls :
        /\ RemoveOf(p) /\ Finished(p) /\ p.cb = "ok" /\ p.solo
        /\ p.rkeys # {}
        /\ \A k \in p.rkeys : Lookup(k) = EmptyDoc

\* ------------------------------------------------------------ C4
\* C4: a submit of a job without a uniqueness key issues no get and no set
\* on the registry document and calls the engine's plain creation exactly
\* once, whatever the registry contains.
C4_NonUniquePassthrough ==
    \A p \in Calls :
        (SaveOf(p) /\ p.key = NoKey) =>
            /\ p.nGet = 0 /\ p.nSet = 0 /\ p.nCreate = 1
            /\ p.pc \in {"plainCreate", "done"}
            /\ ~p.found

C4_Witness ==
    \E p \in Calls :
        /\ SaveOf(p) /\ p.key = NoKey /\ p.cb = "ok"
        /\ p.nGet = 0 /\ p.nSet = 0 /\ p.nCreate = 1
        /\ ParseBlob(store) # EmptyDoc

\* ------------------------------------------------------------ C5
\* C5: a submit whose lookup found an entry for its key performs neither an
\* engine job creation nor a registry write (no set on the document).
C5_FoundSkipsCreationAndRegistration ==
    \A p \in Calls :
        (SaveOf(p) /\ p.found) => (p.nCreate = 0 /\ p.nSet = 0)

C7_RemoveReportsFailure ==
    \A p \in Calls :
        (RemoveOf(p) /\ (p.eng = "err" \/ p.reg = "err")) =>
            (p.cb = "err" /\ p.cbCount = 1)

\* the engine removed the job, the cleanup failed, an error was reported
C7_Witness ==
    \E p \in Calls :
        /\ RemoveOf(p) /\ Finished(p)
        /\ p.eng = "ok" /\ p.reg = "err" /\ p.cb = "err"

\* ------------------------------------------------------------ C8
\* C8: the document a remove writes has no entry whose value is the job's
\* id, whatever the engine's removal did; when the engine's removal fails and
\* the store operations succeed, a remove that overlapped no other operation
\* leaves no such entry in the registry, although the job still exists in
\* the engine.
C8_CleanupDespiteEngineFailure ==
    \A p \in Calls :
        /\ (RemoveOf(p) /\ p.reg = "ok") =>
              (p.nSet = 1 /\ \A k \in DOMAIN p.wr : p.wr[k] # p.id)
        /\ (RemoveOf(p) /\ Finished(p) /\ p.solo
              /\ p.eng = "err" /\ p.reg = "ok") =>
              (KeysOf(p.id) = {} /\ p.id \in DOMAIN jobs)

C8_Witness ==
    \E p \in Calls :
        /\ RemoveOf(p) /\ Finished(p) /\ p.solo
        /\ p.eng = "err" /\ p.reg = "ok"
        /\ p.rkeys # {} /\ KeysOf(p.id) = {}
        /\ p.id \in DOMAIN jobs

\* ------------------------------------------------------------ C9
\* C9: a submit whose lookup found an entry whose job cannot be fetched
\* reports the fetch error, asks the engine for no new job and issues no
\* set; run alone, it leaves the dangling entry in the document.
C9_DanglingEntryFailsSubmit ==
    \A p \in Calls :
        (SaveOf(p) /\ p.dangling) =>
            /\ p.pc = "done" /\ p.cb = "err"
            /\ p.nCreate = 0 /\ ~p.created /\ p.nSet = 0
            /\ p.solo =>
                  (Exists(Lookup(p.key))
                     /\ FirstValue(Lookup(p.key)) = p.id)

C9_Witness ==
    \E p \in Calls :
        /\ SaveOf(p) /\ p.dangling /\ p.cb = "err" /\ p.solo
        /\ p.id \notin DOMAIN jobs
        /\ p.key \in KeysOf(p.id)

\* ------------------------------------------------------------ C10
\* C10: if a submit with key k created its job and the registry merge then
\* failed (on its get or on its set), the submit reports the error, the
\* document holds no entry for the new job id, and the job stays in the
\* engine (nothing else having run meanwhile).
C10_MergeFailureLeavesUnregisteredJob ==
    \A p \in Calls :
        (SaveOf(p) /\ p.created /\ p.mergeFailed) =>
            /\ p.pc = "done" /\ p.cb = "err"
            /\ KeysOf(p.id) = {}
            /\ p.solo => p.id \in DOMAIN jobs

C10_Witness ==
    \E p \in Calls :
        /\ SaveOf(p) /\ p.created /\ p.mergeFailed
        /\ p.cb = "err" /\ p.nSet = 1
        /\ p.id \in DOMAIN jobs /\ jobs[p.id] = p.key
        /\ KeysOf(p.id) = {}

\* ------------------------------------------------------------ C11
\* the store holds no parseable document: the key is absent (null) or its
\* content is malformed
Unparseable == store.t # "json"

\* C11: whenever the content under the document key is absent, null or not
\* parseable and the store get succeeds, the lookup of any key is empty and
\* no error is reported: a save whose lookup get succeeds goes on, without a
\* callback, to create its job.
C11_ParseTolerance ==
    [][Unparseable =>
         /\ \A k \in Keys : ~Exists(Lookup(k))
         /\ \A r \in Calls :
               LookupGet(r, TRUE) =>
                   [r EXCEPT !.pc = "create", !.nCreate = 1] \in BagToSet(calls')]_vars

\* a save found nothing in a malformed document and is creating its job
C11_Witness ==
    /\ store = GarbageBlob
    /\ \E r \in Calls : r.pc = "create" /\ r.cb = "none" /\ ~r.found

\* ------------------------------------------------------------ C12
\* C12: if the store read fails during a submit's lookup, the error is
\* delivered to the submit callback and the attempt ends there: it has
\* issued the one get, asked for no job creation, fetched no job, issued no
\* set, and changes neither the engine nor the document.
C12_LookupReadFailure ==
    [][\A r \in Calls :
          LookupGet(r, FALSE) =>
              /\ [r EXCEPT !.pc = "done", !.cb = "err", !.cbCount = 1]
                     \in BagToSet(calls')
              /\ r.nGet = 1 /\ r.nCreate = 0 /\ r.nFetch = 0 /\ r.nSet = 0
              /\ jobs' = jobs /\ store' = store /\ nextId' = nextId]_vars

\* the lookup failed although the document has an entry for the key
C12_Witness ==
    \E r \in Calls :
        /\ SaveOf(r) /\ r.key \in DOMAIN ParseBlob(store)
        /\ Finished(r) /\ r.cb = "err" /\ ~r.found
        /\ r.nGet = 1 /\ r.nCreate = 0 /\ r.nFetch = 0 /\ r.nSet = 0

\* ------------------------------------------------------------ C13
\* C13 (as stated): any two concurrent removeByJobId calls, with the same or
\* different ids, end in every interleaving in the document that running
\* them one after the other gives: the entries of the remaining jobs, none
\* for a removed id.
C13_RemovesCommute ==
    (~failed /\ InFlight = {}) => ParseBlob(store) = DocOf(jobs)

\* as long as one id only has been removed, concurrent removeByJobId calls
\* do end in the document that running them one after the other gives: no
\* entry for that id, every other entry unchanged
C13_RemovesOfSameIdCommute ==
    (~failed /\ InFlight = {} /\ Cardinality(Removed) <= 1) =>
        ParseBlob(store) = DocOf(jobs)

\* two overlapping removes of one registered job have both finished
C13_Witness ==
    /\ ~failed /\ InFlight = {} /\ started = 2
    /\ \E r \in Calls :
          /\ RemoveOf(r) /\ Finished(r) /\ r.cb = "ok" /\ ~r.solo
          /\ r.rkeys # {} /\ Removed = {r.id} /\ KeysOf(r.id) = {}
    /\ ParseBlob(store) = DocOf(jobs)

\* ------------------------------------------------------------ C14
\* C14: when concurrent submits with the same key k each created a job of
\* their own (no store or engine error), none of them reports an error, and
\* once all attempts have completed the registry maps k to the id of the job
\* whose registry set was performed last, whatever entry an earlier set left.
C14_LastMergeWins ==
    \A r \in Calls :
        ( /\ ~failed
          /\ SaveOf(r) /\ Finished(r) /\ r.created /\ r.key # NoKey
          /\ Cardinality(JobsWith(r.key)) >= 2 )
        => /\ r.cb = "ok"
           /\ InFlight = {} =>
                 /\ Exists(Lookup(r.key))
                 /\ FirstValue(Lookup(r.key)) = r.id

\* two submits of one key both created a job; the job created first was
\* registered last and is the one the registry names
C14_Witness ==
    /\ ~failed /\ InFlight = {} /\ started = 2
    /\ \E r \in Calls :
          /\ SaveOf(r) /\ Finished(r) /\ r.created /\ ~r.found /\ r.cb = "ok"
          /\ r.key # NoKey
          /\ JobsWith(r.key) = {r.id, r.id + 1}
          /\ KeysOf(r.id) = {r.key}

\* ------------------------------------------------------------ C15
\* C15: a lost update is reachable for concurrent merges. Two concurrent
\* submits with different keys both complete without error, both jobs exist
\* in the engine, and the final document holds the entry of only one of them
\* (C15_Witness), because the set of a merge writes back the document the
\* writer read: an entry for another key is in the document after the set
\* exactly when it was in the document the writer read, whatever was written
\* in between (C15_WriterWritesBackItsRead).
C15_WriterWritesBackItsRead ==
    [][\A r \in Calls :
          MergeSet(r, TRUE) =>
              \A k \in Keys \ {r.jkey} :
                  /\ k \in DOMAIN ParseBlob(store') <=> k \in DOMAIN r.wr
                  /\ k \in DOMAIN r.wr => ParseBlob(store')[k] = r.wr[k]]_vars

\* two submits, keys different, both jobs created, no error, nothing left in
\* flight, and one entry only in the document
C15_Witness ==
    /\ ~failed /\ InFlight = {} /\ started = 2
    /\ DOMAIN jobs = {1, 2}
    /\ jobs[1] # NoKey /\ jobs[2] # NoKey /\ jobs[1] # jobs[2]
    /\ Cardinality(DOMAIN ParseBlob(store)) = 1
    /\ \E r \in Calls :
          /\ SaveOf(r) /\ Finished(r) /\ r.created /\ r.cb = "ok"
          /\ ParseBlob(store) = r.wr

\* ------------------------------------------------------------ C16
\* C16: in every reachable state of the registry document, under any
\* interleaving of submits and removes (each job carries at most one
\* uniqueness key), no job id is the value of more than one key: the mapping
\* from key to id is injective.
C16_RegistryInjective ==
    \A k1, k2 \in DOMAIN ParseBlob(store) :
        ParseBlob(store)[k1] = ParseBlob(store)[k2] => k1 = k2

\* a document of two entries, written by attempts that overlapped, after a
\* job was removed
C16_Witness ==
    /\ Cardinality(DOMAIN ParseBlob(store)) = 2
    /\ ~clean
    /\ Removed # {}
    /\ \E r \in Calls : SaveOf(r) /\ Finished(r) /\ r.cb = "ok" /\ r.created

\* ------------------------------------------------------------ C17
\* C17: run without overlap and without store error, the merge of a submit
\* (Job.saveUniqueJobsData) leaves the prior document with exactly the entry
\* of the key set to the job id, overwriting a prior value, every other entry
\* unchanged; the cleanup of a remove (Job.removeUniqueJobData) leaves the
\* prior document minus exactly the entries whose value is the job id, every
\* other entry unchanged.
C17_MergeAndRemoveAlone ==
    [][\A r \in Calls :
          /\ (r.solo /\ MergeSet(r, TRUE)) =>
                /\ DOMAIN ParseBlob(store') = DOMAIN ParseBlob(store) \cup {r.jkey}
                /\ ParseBlob(store')[r.jkey] = r.id
                /\ \A k \in DOMAIN ParseBlob(store) \ {r.jkey} :
                      ParseBlob(store')[k] = ParseBlob(store)[k]
          /\ (r.solo /\ RmSet(r, TRUE)) =>
                /\ DOMAIN ParseBlob(store') =
                      {k \in DOMAIN ParseBlob(store) : ParseBlob(store)[k] # r.id}
                /\ \A k \in DOMAIN ParseBlob(store') :
                      ParseBlob(store')[k] = ParseBlob(store)[k]]_vars

\* two merges that ran alone built a document of two entries, a cleanup that
\* ran alone took one of them out
C17_Witness ==
    \E r \in Calls :
        /\ clean
        /\ RemoveOf(r) /\ r.solo /\ r.reg = "ok" /\ r.rkeys # {}
        /\ Cardinality(DOMAIN ParseBlob(store)) = 1
        /\ KeysOf(r.id) = {}

\* ------------------------------------------------------------ C18
\* C18 (as stated): under any interleaving of submits and removes without
\* store or engine error, once a remove has completed successfully and every
\* attempt that was in flight has finished, the registry document holds no
\* entry whose value is the removed job's id: neither a submit that found
\* the job as existing nor a merge that read the document before the
\* cleanup's set writes the entry back.
C18_RemovedJobHasNoEntry ==
    (~failed /\ InFlight = {}) => \A i \in Removed : KeysOf(i) = {}

\* ------------------------------------------------------------ C19
\* C19 (as stated): the remove of a job whose id is not a value in the
\* registry (a job saved without a uniqueness key, say) never changes the
\* logical content of the registry, also when it overlaps a submit: the set
\* of its cleanup leaves every entry in place, the entry of a submit that
\* completed successfully included.
C19_RemoveOfUnregisteredKeepsRegistry ==
    [][\A r \in Calls :
          (RmSet(r, TRUE) /\ r.rkeys = {} /\ KeysOf(r.id) = {})
              => ParseBlob(store') = ParseBlob(store)]_vars

\* ------------------------------------------------------------ C20
\* C20: with every store call and every engine call eventually calling back
\* (FairSpec), every submit attempt and every remove attempt eventually
\* invokes the caller's completion callback, and invokes it exactly once, on
\* every path: job found, job created, a step failing, both tasks of a
\* remove failing. No attempt has ever been called back twice, an attempt all
\* of whose calls have returned has been called back, and from some point on
\* no attempt is waiting for its callback.
C20_CallbackExactlyOnce ==
    /\ [](\A r \in Calls :
             /\ r.cbCount <= 1
             /\ r.cbCount = 0 <=> r.cb = "none"
             /\ Finished(r) => r.cbCount = 1)
    /\ <>[](\A r \in Calls : r.cbCount = 1)

\* both tasks of a remove failed and its callback was invoked once
C20_Witness ==
    \E r \in Calls :
        /\ RemoveOf(r) /\ Finished(r)
        /\ r.eng = "err" /\ r.reg = "err"
        /\ r.cb = "err" /\ r.cbCount = 1

====
